---- MODULE Spec2Model ----
(***************************************************************************)
(* Model of the OpenAI-compatible SSE streaming reader of rig-core         *)
(* (providers/openai/streaming.rs,                                         *)
(* send_compatible_streaming_request_with_config), of the entry points     *)
(* that lead to it (send_compatible_streaming_request,                     *)
(* CompletionModel::stream) and of the request an Agent builds             *)
(* (agent/completion.rs).                                                  *)
(*                                                                         *)
(* A response body is a sequence of bytes.  A byte is written as a short   *)
(* string; most bytes of a JSON frame are grouped into one token per       *)
(* syntactic element (see Encode), the bytes of the "data: " prefix, of    *)
(* the texts and of the line feed are single bytes.  A Rust String is a    *)
(* UTF-8 byte vector, so texts stay byte sequences after decoding.         *)
(* Option<T> is a sequence of length 0 (None) or 1 (Some).                 *)
(***************************************************************************)
EXTENDS Integers, Sequences, FiniteSets, TLC

VARIABLES
    builder,                        \* what was set on the AgentBuilder, None without agent
    agent,                          \* the Agent, None before it is built
    request,                        \* the CompletionRequest the agent built
    status,                         \* response.status()
    returned,                       \* what the call returned, None while it runs
    cancelled,                      \* the consumer has dropped the stream
    stream,                         \* response.bytes_stream(): bytes not yet delivered
    include_reason_in_content,      \* parameter of the call
    include_reason_in_content_tag,  \* parameter of the call
    final_usage,
    partial_data,
    calls,
    reasoning_buffer,
    content_buffer,
    has_reasoning,
    pc,                             \* position of the generator
    events,                         \* every item yielded so far
    parsed                          \* history: every frame the parser accepted so far

vars == <<builder, agent, request, status, returned, cancelled,
          stream, include_reason_in_content, include_reason_in_content_tag,
          final_usage, partial_data, calls, reasoning_buffer, content_buffer,
          has_reasoning, pc, events, parsed>>

\* ---------------------------------------------------------------------
\* Bounds of the model
\* ---------------------------------------------------------------------
MaxLines == 3

\* ---------------------------------------------------------------------
\* Generic helpers
\* ---------------------------------------------------------------------
None == <<>>

Some(v) == <<v>>

RECURSIVE Concat(_)
Concat(ss) == IF ss = <<>> THEN <<>> ELSE Head(ss) \o Concat(Tail(ss))

Last(s) == s[Len(s)]

\* str::trim().is_empty(): only white space
Whitespace == {" ", "\n"}

IsBlank(t) == \A i \in 1..Len(t) : t[i] \in Whitespace

\* ---------------------------------------------------------------------
\* Chunk decoding: String::from_utf8 and str::lines
\* ---------------------------------------------------------------------
\* "e1" "e2" are the lead and the continuation byte of one two-byte character
Utf8Valid(chunk) ==
    \A i \in 1..Len(chunk) :
        /\ chunk[i] = "e1" => (i < Len(chunk) /\ chunk[i + 1] = "e2")
        /\ chunk[i] = "e2" => (i > 1 /\ chunk[i - 1] = "e1")

\* str::lines on a text without carriage returns: split at each line feed,
\* no empty last line after a final line feed
RECURSIVE Lines(_)
Lines(text) ==
    IF text = <<>> THEN <<>>
    ELSE IF \E i \in 1..Len(text) : text[i] = "\n"
         THEN LET n == CHOOSE i \in 1..Len(text) :
                          /\ text[i] = "\n"
                          /\ \A j \in 1..(i - 1) : text[j] # "\n"
              IN  <<SubSeq(text, 1, n - 1)>> \o Lines(SubSeq(text, n + 1, Len(text)))
         ELSE <<text>>

Prefix == <<"d", "a", "t", "a", ":", " ">>

HasPrefix(line) ==
    /\ Len(line) >= Len(Prefix)
    /\ SubSeq(line, 1, Len(Prefix)) = Prefix

StripPrefix(line) == SubSeq(line, Len(Prefix) + 1, Len(line))

EndsWithBrace(line) == Len(line) > 0 /\ Last(line) = "}"

\* ---------------------------------------------------------------------
\* Wire format of a frame (what serde_json reads)
\*   frame   ::= "{" "[" delta* "]" usage? "}"
\*   delta   ::= "D" content? reasoning? tools? "}"
\*   content ::= "c" byte* Q        reasoning ::= "r" byte* Q
\*   tools   ::= "T" frag+ "]"
\*   frag    ::= "F" slot id? name? args "}"
\*   usage   ::= "u" digit digit "}"
\* Q is the closing quote of a JSON string.
\* ---------------------------------------------------------------------
Q == "\""

Digit(n) == <<"0", "1", "2", "3", "4", "5", "6", "7", "8", "9">>[n + 1]

EncText(marker, opt) ==
    IF opt = None THEN <<>> ELSE <<marker>> \o opt[1] \o <<Q>>

EncToolCall(tc) ==
    <<"F", Digit(tc.index)>>
        \o EncText("i", tc.id)
        \o EncText("n", tc.function.name)
        \o <<"a">> \o tc.function.arguments \o <<Q>>
        \o <<"}">>

EncDelta(d) ==
    <<"D">>
        \o EncText("c", d.content)
        \o EncText("r", d.reasoning_content)
        \o (IF d.tool_calls = <<>> THEN <<>>
            ELSE <<"T">>
                 \o Concat([i \in 1..Len(d.tool_calls) |-> EncToolCall(d.tool_calls[i])])
                 \o <<"]">>)
        \o <<"}">>

EncUsage(u) ==
    IF u = None THEN <<>>
    ELSE <<"u", Digit(u[1].prompt_tokens), Digit(u[1].total_tokens), "}">>

Encode(f) ==
    <<"{", "[">>
        \o Concat([i \in 1..Len(f.choices) |-> EncDelta(f.choices[i].delta)])
        \o <<"]">>
        \o EncUsage(f.usage)
        \o <<"}">>

\* ---------------------------------------------------------------------
\* Frames (StreamingCompletionChunk and its parts)
\* ---------------------------------------------------------------------
StreamingFunction(name, arguments) == [name |-> name, arguments |-> arguments]

StreamingToolCall(index, id, name, arguments) ==
    [index |-> index, id |-> id, function |-> StreamingFunction(name, arguments)]

StreamingDelta(content, reasoning_content, tool_calls) ==
    [content |-> content, reasoning_content |-> reasoning_content,
     tool_calls |-> tool_calls]

StreamingChoice(delta) == [delta |-> delta]

Usage(p, t) == [prompt_tokens |-> p, total_tokens |-> t]

StreamingCompletionChunk(choices, usage) == [choices |-> choices, usage |-> usage]

OneChoice(content, reasoning_content, tool_calls, usage) ==
    StreamingCompletionChunk(
        <<StreamingChoice(StreamingDelta(content, reasoning_content, tool_calls))>>,
        usage)

\* text frames
FContentX == OneChoice(Some(<<"x">>), None, <<>>, None)
FContentY == OneChoice(Some(<<"e1", "e2">>), None, <<>>, None)
FContentBlank == OneChoice(Some(<<" ">>), None, <<>>, None)
FReason == OneChoice(None, Some(<<"q">>), <<>>, None)
FReasonW == OneChoice(None, Some(<<"w">>), <<>>, None)
FReasonBlank == OneChoice(None, Some(<<" ">>), <<>>, None)
FBoth == OneChoice(Some(<<"z">>), Some(<<"p">>), <<>>, None)
\* usage frames
FUsage1 == StreamingCompletionChunk(<<>>, Some(Usage(1, 2)))
FUsage2 == OneChoice(Some(<<"x">>), None, <<>>, Some(Usage(3, 4)))
\* tool-call frames
ArgsWhole == <<"{", "k", "}">>
FStart0 == OneChoice(None, None,
               <<StreamingToolCall(0, Some(<<"1">>), Some(<<"f">>), <<>>)>>, None)
FStart0g == OneChoice(None, None,
               <<StreamingToolCall(0, None, Some(<<"g">>), <<>>)>>, None)
FStart1 == OneChoice(None, None,
               <<StreamingToolCall(1, Some(<<"2">>), Some(<<"g">>), <<>>)>>, None)
FCont0a == OneChoice(None, None,
               <<StreamingToolCall(0, None, None, <<"{", "k">>)>>, None)
FCont0b == OneChoice(None, None,
               <<StreamingToolCall(0, None, Some(<<>>), <<"}">>)>>, None)
FCont0w == OneChoice(None, None,
               <<StreamingToolCall(0, None, None, ArgsWhole)>>, None)
FCont1w == OneChoice(None, None,
               <<StreamingToolCall(1, None, None, <<"{", "}">>)>>, None)
FAtomic == OneChoice(Some(<<"x">>), None,
               <<StreamingToolCall(0, Some(<<"3">>), Some(<<"h">>), <<"{", "}">>)>>, None)
FAtomicBad == OneChoice(None, None,
               <<StreamingToolCall(1, Some(<<"3">>), Some(<<"h">>), <<"{">>)>>, None)
FNoName == OneChoice(None, None,
               <<StreamingToolCall(0, None, None, <<>>)>>, None)
FStart01 == OneChoice(None, None,
               <<StreamingToolCall(0, Some(<<"1">>), Some(<<"f">>), <<>>),
                 StreamingToolCall(1, Some(<<"2">>), Some(<<"g">>), <<>>)>>, None)
FCont0a1 == OneChoice(None, None,
               <<StreamingToolCall(0, None, None, <<"{", "k">>),
                 StreamingToolCall(1, None, None, <<"{", "}">>)>>, None)

\* an orphan continuation beside a start, with reasoning, content and usage
FOrphanMix == OneChoice(Some(<<"x">>), Some(<<"q">>),
               <<StreamingToolCall(1, None, None, <<"{", "}">>),
                 StreamingToolCall(0, Some(<<"1">>), Some(<<"f">>), <<>>)>>,
               Some(Usage(1, 2)))

\* frames with no choice and with more than one
FNoChoice == StreamingCompletionChunk(<<>>, None)
FTwoChoices == StreamingCompletionChunk(
                 <<StreamingChoice(StreamingDelta(Some(<<"x">>), None, <<>>)),
                   StreamingChoice(StreamingDelta(Some(<<"z">>), Some(<<"p">>),
                       <<StreamingToolCall(1, Some(<<"2">>), Some(<<"g">>), <<>>)>>))>>,
                 Some(Usage(3, 4)))
\* an atomic tool call, reasoning and content in one delta
FAtomicBoth == OneChoice(Some(<<"z">>), Some(<<"p">>),
               <<StreamingToolCall(0, Some(<<"3">>), Some(<<"h">>), <<"{", "}">>)>>, None)

ChoiceFrames == {FNoChoice, FTwoChoices, FAtomicBoth}

TextFrames == {FContentX, FContentY, FContentBlank, FReason, FReasonW, FReasonBlank, FBoth}

UsageFrames == {FUsage1, FUsage2}

ToolFrames == {FStart0, FStart0g, FStart1, FCont0a, FCont0b, FCont0w, FCont1w,
               FAtomic, FAtomicBad, FNoName, FStart01, FCont0a1, FOrphanMix}

Frames == TextFrames \cup UsageFrames \cup ToolFrames \cup ChoiceFrames

\* serde_json::from_str::<StreamingCompletionChunk>: the frame whose
\* serialisation the text is, None when the text is not one
WireOf == [f \in Frames |-> Encode(f)]

\* a parser for which reasoning_content is a required field of the delta
ParseChunkReasoningRequired(text) ==
    IF \E f \in Frames :
          /\ WireOf[f] = text
          /\ f.choices # <<>> => f.choices[1].delta.reasoning_content # None
    THEN Some(CHOOSE f \in Frames : WireOf[f] = text)
    ELSE None

ParseChunk(text) ==
    IF \E f \in Frames : WireOf[f] = text
    THEN Some(CHOOSE f \in Frames : WireOf[f] = text)
    ELSE None

\* serde_json::from_str::<Value> on an argument string: an object of items
ItemBytes == {"k", "m"}

ParseValue(text) ==
    IF /\ Len(text) >= 2
       /\ text[1] = "{"
       /\ Last(text) = "}"
       /\ \A i \in 2..(Len(text) - 1) : text[i] \in ItemBytes
    THEN Some({text[i] : i \in 2..(Len(text) - 1)})
    ELSE None

\* ---------------------------------------------------------------------
\* Lines of a response body
\* ---------------------------------------------------------------------
DataLine(payload) == Prefix \o payload \o <<"\n">>

FrameLine(f) == DataLine(Encode(f))

BadClosedLine == DataLine(<<"{", "x", "}">>)

BadOpenLine == DataLine(<<"{", "x">>)

BadUsageLine == DataLine(<<"{", "x", "u", "3", "4", "}", "}">>)

BlankLine == <<"\n">>

RECURSIVE SeqsUpTo(_, _)
SeqsUpTo(S, n) ==
    IF n = 0 THEN {<<>>}
    ELSE LET shorter == SeqsUpTo(S, n - 1)
         IN  shorter \cup {Append(s, x) : s \in {t \in shorter : Len(t) = n - 1}, x \in S}

Bodies(lineSet) == {Concat(ls) : ls \in SeqsUpTo(lineSet, MaxLines)}

\* ---------------------------------------------------------------------
\* Output items (RawStreamingChoice and the Err item)
\* ---------------------------------------------------------------------
Message(text) == [kind |-> "Message", text |-> text]

ToolCall(id, name, arguments) ==
    [kind |-> "ToolCall", id |-> id, name |-> name, arguments |-> arguments]

FinalResponse(usage) == [kind |-> "FinalResponse", usage |-> usage]

Err(e) == [kind |-> "Err", error |-> e]

\* ---------------------------------------------------------------------
\* Tool-call fragments of one delta (lines 169-207)
\* ---------------------------------------------------------------------
JoinArgumentsReversed(arguments, new_arguments) == new_arguments \o arguments

JoinArgumentsOverwrite(arguments, new_arguments) == new_arguments

\* format!("{arguments}{new_arguments}") (line 190)
JoinArguments(arguments, new_arguments) == arguments \o new_arguments

\* a start that keeps an entry the slot already has
ToolCallStepFirstStartWins(acc, tool_call) ==
    LET function == tool_call.function
        id == IF tool_call.id = None THEN <<>> ELSE tool_call.id[1]
    IN  IF function.name # None /\ function.arguments = <<>>
        THEN [acc EXCEPT !.calls =
                 acc.calls @@ (tool_call.index :> <<id, function.name[1], <<>>>>)]
        ELSE IF /\ (function.name = None \/ function.name[1] = <<>>)
                /\ function.arguments # <<>>
        THEN IF tool_call.index \notin DOMAIN acc.calls
             THEN acc
             ELSE LET old == acc.calls[tool_call.index]
                  IN  [acc EXCEPT !.calls =
                          (tool_call.index :>
                              <<old[1], old[2], JoinArguments(old[3], function.arguments)>>)
                          @@ acc.calls]
        ELSE IF function.name = None
        THEN [acc EXCEPT !.panicked = TRUE]
        ELSE LET arguments == ParseValue(function.arguments)
             IN  IF arguments = None
                 THEN acc
                 ELSE [acc EXCEPT !.out =
                          Append(acc.out, ToolCall(id, function.name[1], arguments[1]))]

\* an entire tool call that is also recorded in the map
ToolCallStepRecordsAtomic(acc, tool_call) ==
    LET function == tool_call.function
        id == IF tool_call.id = None THEN <<>> ELSE tool_call.id[1]
    IN  IF function.name # None /\ function.arguments = <<>>
        THEN [acc EXCEPT !.calls =
                 (tool_call.index :> <<id, function.name[1], <<>>>>) @@ acc.calls]
        ELSE IF /\ (function.name = None \/ function.name[1] = <<>>)
                /\ function.arguments # <<>>
        THEN IF tool_call.index \notin DOMAIN acc.calls
             THEN acc
             ELSE LET old == acc.calls[tool_call.index]
                  IN  [acc EXCEPT !.calls =
                          (tool_call.index :>
                              <<old[1], old[2], JoinArguments(old[3], function.arguments)>>)
                          @@ acc.calls]
        ELSE IF function.name = None
        THEN [acc EXCEPT !.panicked = TRUE]
        ELSE LET arguments == ParseValue(function.arguments)
             IN  IF arguments = None
                 THEN acc
                 ELSE [acc EXCEPT
                          !.calls = (tool_call.index :>
                                        <<id, function.name[1], function.arguments>>)
                                    @@ acc.calls,
                          !.out =
                          Append(acc.out, ToolCall(id, function.name[1], arguments[1]))]

ToolCallStep(acc, tool_call) ==
    LET function == tool_call.function
        id == IF tool_call.id = None THEN <<>> ELSE tool_call.id[1]
    IN  IF function.name # None /\ function.arguments = <<>>
        THEN [acc EXCEPT !.calls =
                 (tool_call.index :> <<id, function.name[1], <<>>>>) @@ acc.calls]
        ELSE IF /\ (function.name = None \/ function.name[1] = <<>>)
                /\ function.arguments # <<>>
        THEN IF tool_call.index \notin DOMAIN acc.calls
             THEN acc
             ELSE LET old == acc.calls[tool_call.index]
                  IN  [acc EXCEPT !.calls =
                          (tool_call.index :>
                              <<old[1], old[2], JoinArguments(old[3], function.arguments)>>)
                          @@ acc.calls]
        ELSE IF function.name = None
        THEN [acc EXCEPT !.panicked = TRUE]
        ELSE LET arguments == ParseValue(function.arguments)
             IN  IF arguments = None
                 THEN acc
                 ELSE [acc EXCEPT !.out =
                          Append(acc.out, ToolCall(id, function.name[1], arguments[1]))]

\* a loop that an orphan continuation ends
RECURSIVE ToolCallLoopEndsAtOrphan(_, _)
ToolCallLoopEndsAtOrphan(acc, tool_calls) ==
    IF tool_calls = <<>> \/ acc.panicked THEN acc
    ELSE LET tc == Head(tool_calls)
         IN  IF /\ (tc.function.name = None \/ tc.function.name[1] = <<>>)
                /\ tc.function.arguments # <<>>
                /\ tc.index \notin DOMAIN acc.calls
             THEN acc
             ELSE ToolCallLoopEndsAtOrphan(ToolCallStep(acc, tc), Tail(tool_calls))

RECURSIVE ToolCallLoop(_, _)
ToolCallLoop(acc, tool_calls) ==
    IF tool_calls = <<>> \/ acc.panicked THEN acc
    ELSE ToolCallLoop(ToolCallStep(acc, Head(tool_calls)), Tail(tool_calls))

\* ---------------------------------------------------------------------
\* One frame (lines 165-230), on a record st of the generator's locals
\* ---------------------------------------------------------------------
BufferContentAlways(include, has) == include

BufferContentNever(include, has) == FALSE

BufferContentIgnoresPolicy(include, has) == has

\* the test of line 217: buffer the content instead of yielding it
BufferContent(include, has) == include /\ has

TrackUsageSummed(old, usage) ==
    Usage(old.prompt_tokens + usage.prompt_tokens, old.total_tokens + usage.total_tokens)

\* the assignment of line 229
TrackUsage(old, usage) == usage

\* a reader driven by the last choice of a frame
FrameStepLastChoice(st, data) ==
    LET hasChoice == data.choices # <<>>
        delta == data.choices[Len(data.choices)].delta
        acc == IF hasChoice
               THEN ToolCallLoop([calls |-> st.calls, out |-> <<>>, panicked |-> FALSE],
                                 delta.tool_calls)
               ELSE [calls |-> st.calls, out |-> <<>>, panicked |-> FALSE]
        sawReasoning == hasChoice /\ delta.reasoning_content # None
        has == st.has_reasoning \/ sawReasoning
        rbuf == IF sawReasoning
                THEN st.reasoning_buffer \o delta.reasoning_content[1]
                ELSE st.reasoning_buffer
        sawContent == hasChoice /\ delta.content # None
        buffered == sawContent /\ BufferContent(st.include, has)
        cbuf == IF buffered THEN st.content_buffer \o delta.content[1]
                ELSE st.content_buffer
        text == IF sawContent /\ ~buffered THEN <<Message(delta.content[1])>> ELSE <<>>
    IN  IF acc.panicked
        THEN [st EXCEPT !.calls = acc.calls,
                        !.events = st.events \o acc.out,
                        !.panicked = TRUE]
        ELSE [st EXCEPT !.calls = acc.calls,
                        !.has_reasoning = has,
                        !.reasoning_buffer = rbuf,
                        !.content_buffer = cbuf,
                        !.events = st.events \o acc.out \o text,
                        !.final_usage = IF data.usage # None
                                        THEN TrackUsage(st.final_usage, data.usage[1])
                                        ELSE st.final_usage]

\* a reader that handles the content of a frame before its reasoning
FrameStepContentFirst(st, data) ==
    LET hasChoice == data.choices # <<>>
        delta == data.choices[1].delta
        acc == IF hasChoice
               THEN ToolCallLoop([calls |-> st.calls, out |-> <<>>, panicked |-> FALSE],
                                 delta.tool_calls)
               ELSE [calls |-> st.calls, out |-> <<>>, panicked |-> FALSE]
        sawReasoning == hasChoice /\ delta.reasoning_content # None
        has == st.has_reasoning \/ sawReasoning
        rbuf == IF sawReasoning
                THEN st.reasoning_buffer \o delta.reasoning_content[1]
                ELSE st.reasoning_buffer
        sawContent == hasChoice /\ delta.content # None
        buffered == sawContent /\ BufferContent(st.include, st.has_reasoning)
        cbuf == IF buffered THEN st.content_buffer \o delta.content[1]
                ELSE st.content_buffer
        text == IF sawContent /\ ~buffered THEN <<Message(delta.content[1])>> ELSE <<>>
    IN  IF acc.panicked
        THEN [st EXCEPT !.calls = acc.calls,
                        !.events = st.events \o acc.out,
                        !.panicked = TRUE]
        ELSE [st EXCEPT !.calls = acc.calls,
                        !.has_reasoning = has,
                        !.reasoning_buffer = rbuf,
                        !.content_buffer = cbuf,
                        !.events = st.events \o acc.out \o text,
                        !.final_usage = IF data.usage # None
                                        THEN TrackUsage(st.final_usage, data.usage[1])
                                        ELSE st.final_usage]

\* a reader for which blank reasoning does not count as observed
FrameStepIgnoresBlankReasoning(st, data) ==
    LET hasChoice == data.choices # <<>>
        delta == data.choices[1].delta
        acc == IF hasChoice
               THEN ToolCallLoop([calls |-> st.calls, out |-> <<>>, panicked |-> FALSE],
                                 delta.tool_calls)
               ELSE [calls |-> st.calls, out |-> <<>>, panicked |-> FALSE]
        sawReasoning == hasChoice /\ delta.reasoning_content # None
        has == st.has_reasoning
               \/ (sawReasoning /\ ~IsBlank(delta.reasoning_content[1]))
        rbuf == IF sawReasoning
                THEN st.reasoning_buffer \o delta.reasoning_content[1]
                ELSE st.reasoning_buffer
        sawContent == hasChoice /\ delta.content # None
        buffered == sawContent /\ BufferContent(st.include, has)
        cbuf == IF buffered THEN st.content_buffer \o delta.content[1]
                ELSE st.content_buffer
        text == IF sawContent /\ ~buffered THEN <<Message(delta.content[1])>> ELSE <<>>
    IN  IF acc.panicked
        THEN [st EXCEPT !.calls = acc.calls,
                        !.events = st.events \o acc.out,
                        !.panicked = TRUE]
        ELSE [st EXCEPT !.calls = acc.calls,
                        !.has_reasoning = has,
                        !.reasoning_buffer = rbuf,
                        !.content_buffer = cbuf,
                        !.events = st.events \o acc.out \o text,
                        !.final_usage = IF data.usage # None
                                        THEN TrackUsage(st.final_usage, data.usage[1])
                                        ELSE st.final_usage]

\* a reader that yields reasoning as it arrives
FrameStepStreamsReasoning(st, data) ==
    LET hasChoice == data.choices # <<>>
        delta == data.choices[1].delta
        acc == IF hasChoice
               THEN ToolCallLoop([calls |-> st.calls, out |-> <<>>, panicked |-> FALSE],
                                 delta.tool_calls)
               ELSE [calls |-> st.calls, out |-> <<>>, panicked |-> FALSE]
        sawReasoning == hasChoice /\ delta.reasoning_content # None
        has == st.has_reasoning \/ sawReasoning
        rbuf == IF sawReasoning
                THEN st.reasoning_buffer \o delta.reasoning_content[1]
                ELSE st.reasoning_buffer
        thought == IF sawReasoning THEN <<Message(delta.reasoning_content[1])>> ELSE <<>>
        sawContent == hasChoice /\ delta.content # None
        buffered == sawContent /\ BufferContent(st.include, has)
        cbuf == IF buffered THEN st.content_buffer \o delta.content[1]
                ELSE st.content_buffer
        text == IF sawContent /\ ~buffered THEN <<Message(delta.content[1])>> ELSE <<>>
    IN  IF acc.panicked
        THEN [st EXCEPT !.calls = acc.calls,
                        !.events = st.events \o acc.out,
                        !.panicked = TRUE]
        ELSE [st EXCEPT !.calls = acc.calls,
                        !.has_reasoning = has,
                        !.reasoning_buffer = rbuf,
                        !.content_buffer = cbuf,
                        !.events = st.events \o acc.out \o thought \o text,
                        !.final_usage = IF data.usage # None
                                        THEN TrackUsage(st.final_usage, data.usage[1])
                                        ELSE st.final_usage]

FrameStep(st, data) ==
    LET hasChoice == data.choices # <<>>
        delta == data.choices[1].delta
        acc == IF hasChoice
               THEN ToolCallLoop([calls |-> st.calls, out |-> <<>>, panicked |-> FALSE],
                                 delta.tool_calls)
               ELSE [calls |-> st.calls, out |-> <<>>, panicked |-> FALSE]
        sawReasoning == hasChoice /\ delta.reasoning_content # None
        has == st.has_reasoning \/ sawReasoning
        rbuf == IF sawReasoning
                THEN st.reasoning_buffer \o delta.reasoning_content[1]
                ELSE st.reasoning_buffer
        sawContent == hasChoice /\ delta.content # None
        buffered == sawContent /\ BufferContent(st.include, has)
        cbuf == IF buffered THEN st.content_buffer \o delta.content[1]
                ELSE st.content_buffer
        text == IF sawContent /\ ~buffered THEN <<Message(delta.content[1])>> ELSE <<>>
    IN  IF acc.panicked
        THEN [st EXCEPT !.calls = acc.calls,
                        !.events = st.events \o acc.out,
                        !.panicked = TRUE]
        ELSE [st EXCEPT !.calls = acc.calls,
                        !.has_reasoning = has,
                        !.reasoning_buffer = rbuf,
                        !.content_buffer = cbuf,
                        !.events = st.events \o acc.out \o text,
                        !.final_usage = IF data.usage # None
                                        THEN TrackUsage(st.final_usage, data.usage[1])
                                        ELSE st.final_usage]

\* ---------------------------------------------------------------------
\* One line of a chunk (lines 134-162, then the frame)
\* ---------------------------------------------------------------------
\* the hold-over after the line and the text handed to the parser (None: skipped)
\* a hold-over that is not cleared when it is used
DecodeLineKeepsHold(partial, line) ==
    IF partial # None
    THEN [partial_data |-> partial, text |-> Some(partial[1] \o line)]
    ELSE IF ~HasPrefix(line)
    THEN [partial_data |-> None, text |-> None]
    ELSE IF ~EndsWithBrace(line)
    THEN [partial_data |-> Some(StripPrefix(line)), text |-> Some(line)]
    ELSE [partial_data |-> None, text |-> Some(StripPrefix(line))]

DecodeLine(partial, line) ==
    IF partial # None
    THEN [partial_data |-> None, text |-> Some(partial[1] \o line)]
    ELSE IF ~HasPrefix(line)
    THEN [partial_data |-> None, text |-> None]
    ELSE IF ~EndsWithBrace(line)
    THEN [partial_data |-> Some(StripPrefix(line)), text |-> Some(line)]
    ELSE [partial_data |-> None, text |-> Some(StripPrefix(line))]

LineStep(st, line) ==
    LET dec == DecodeLine(st.partial_data, line)
        data == IF dec.text = None THEN None ELSE ParseChunk(dec.text[1])
        held == [st EXCEPT !.partial_data = dec.partial_data]
    IN  IF data = None THEN held
        ELSE FrameStep([held EXCEPT !.parsed = Append(st.parsed, data[1])], data[1])

RECURSIVE LinesLoop(_, _)
LinesLoop(st, ls) ==
    IF ls = <<>> \/ st.panicked THEN st
    ELSE LinesLoop(LineStep(st, Head(ls)), Tail(ls))

\* one iteration of the while loop on a chunk that was read (lines 125-231)
ChunkStep(st, chunk) ==
    IF ~Utf8Valid(chunk)
    THEN [st EXCEPT !.events = Append(st.events, Err("ResponseError")),
                    !.broke = TRUE]
    ELSE LinesLoop(st, Lines(chunk))

\* ---------------------------------------------------------------------
\* End of stream (lines 234-279)
\* ---------------------------------------------------------------------
WrapUnclosed(tag, reasoning) ==
    <<"<">> \o tag \o <<">", "\n">> \o reasoning \o <<"\n", "<", "/">> \o tag \o <<">">>

\* format!("<{}>\n{}\n</{}>\n", tag, reasoning, tag) (lines 240, 253)
Wrap(tag, reasoning) ==
    <<"<">> \o tag \o <<">", "\n">> \o reasoning \o <<"\n", "<", "/">> \o tag \o <<">", "\n">>

\* a merged block that leaves the buffered content out
MergedEventsReasoningOnly(st) ==
    IF st.has_reasoning
    THEN IF st.include
         THEN LET combined ==
                      (IF ~IsBlank(st.reasoning_buffer)
                       THEN Wrap(st.tag, st.reasoning_buffer) ELSE <<>>)
              IN  IF ~IsBlank(combined) THEN <<Message(combined)>> ELSE <<>>
         ELSE (IF ~IsBlank(st.reasoning_buffer)
               THEN <<Message(Wrap(st.tag, st.reasoning_buffer))>> ELSE <<>>)
              \o (IF ~IsBlank(st.content_buffer)
                  THEN <<Message(st.content_buffer)>> ELSE <<>>)
    ELSE IF ~IsBlank(st.content_buffer) /\ st.include
         THEN <<Message(st.content_buffer)>>
         ELSE <<>>

MergedEvents(st) ==
    IF st.has_reasoning
    THEN IF st.include
         THEN LET combined ==
                      (IF ~IsBlank(st.reasoning_buffer)
                       THEN Wrap(st.tag, st.reasoning_buffer) ELSE <<>>)
                      \o st.content_buffer
              IN  IF ~IsBlank(combined) THEN <<Message(combined)>> ELSE <<>>
         ELSE (IF ~IsBlank(st.reasoning_buffer)
               THEN <<Message(Wrap(st.tag, st.reasoning_buffer))>> ELSE <<>>)
              \o (IF ~IsBlank(st.content_buffer)
                  THEN <<Message(st.content_buffer)>> ELSE <<>>)
    ELSE IF ~IsBlank(st.content_buffer) /\ st.include
         THEN <<Message(st.content_buffer)>>
         ELSE <<>>

\* a loop over the map that ends at the first buffer that does not parse
RECURSIVE LeftoverEventsEndAtBad(_, _)
LeftoverEventsEndAtBad(cs, order) ==
    IF order = <<>> THEN <<>>
    ELSE LET c == cs[Head(order)]
             arguments == ParseValue(c[3])
         IN  IF arguments = None THEN <<>>
             ELSE <<ToolCall(c[1], c[2], arguments[1])>>
                  \o LeftoverEventsEndAtBad(cs, Tail(order))

\* the loop over the map, visiting the slots in the given order
RECURSIVE LeftoverEvents(_, _)
LeftoverEvents(cs, order) ==
    IF order = <<>> THEN <<>>
    ELSE LET c == cs[Head(order)]
             arguments == ParseValue(c[3])
         IN  (IF arguments = None THEN <<>>
              ELSE <<ToolCall(c[1], c[2], arguments[1])>>)
             \o LeftoverEvents(cs, Tail(order))

\* the iteration orders a HashMap may produce
Orders(S) == {o \in [1..Cardinality(S) -> S] : \A i, j \in 1..Cardinality(S) :
                                                   i # j => o[i] # o[j]}

ZeroUsage == Usage(0, 0)

\* ---------------------------------------------------------------------
\* What the call returns (lines 88-96, 282)
\* ---------------------------------------------------------------------
IsSuccess(s) == 200 <= s /\ s < 300

ReasonPhrase(s) == IF s = 200 THEN "OK" ELSE "Internal Server Error"

\* Display of the status: the code, a space, the reason phrase
StatusText(s) ==
    <<Digit(s \div 100), Digit((s \div 10) % 10), Digit(s % 10), " ",
      ReasonPhrase(s)>>

OkStream == [kind |-> "Ok"]

HttpError == [kind |-> "HttpError"]

RequestError == [kind |-> "RequestError"]

\* format!("{}: {}", response.status(), response.text())
ProviderError(s, text) ==
    [kind |-> "ProviderError", message |-> StatusText(s) \o <<":", " ">> \o text]

\* ---------------------------------------------------------------------
\* State
\* ---------------------------------------------------------------------
Cur ==
    [include |-> include_reason_in_content,
     tag |-> include_reason_in_content_tag,
     final_usage |-> final_usage,
     partial_data |-> partial_data,
     calls |-> calls,
     reasoning_buffer |-> reasoning_buffer,
     content_buffer |-> content_buffer,
     has_reasoning |-> has_reasoning,
     events |-> events,
     parsed |-> parsed,
     panicked |-> pc = "panicked",
     broke |-> FALSE]

Tags == {<<"think">>, <<"reasoning">>}

\* a default policy that keeps reasoning and content apart
DefaultSeparate == <<FALSE, <<"think">>>>

\* the policy of send_compatible_streaming_request (line 80)
Default == <<TRUE, <<"think">>>>

\* the caller's side of the call: nothing the generator writes
caller == <<builder, agent, request, status, returned, cancelled>>

\* response.status(): one success and one failure
Statuses == {200, 500}

InitWith(bodies, configs) ==
    /\ builder = None
    /\ agent = None
    /\ request = None
    /\ status \in Statuses
    /\ returned = None
    /\ cancelled = FALSE
    /\ stream \in bodies
    /\ \E c \in configs :
          /\ include_reason_in_content = c[1]
          /\ include_reason_in_content_tag = c[2]
    /\ final_usage = ZeroUsage
    /\ partial_data = None
    /\ calls = <<>>
    /\ reasoning_buffer = <<>>
    /\ content_buffer = <<>>
    /\ has_reasoning = FALSE
    /\ pc = "send"
    /\ events = <<>>
    /\ parsed = <<>>

config == <<include_reason_in_content, include_reason_in_content_tag, caller>>

\* ---------------------------------------------------------------------
\* The agent (agent/completion.rs).  A JSON object is a function from its
\* keys; the agents of the model have no dynamic context and no tools.
\* ---------------------------------------------------------------------
IncludeKey == "include_reason_in_content"

TagKey == "include_reason_in_content_tag"

\* what may be set on an AgentBuilder before build()
Builders ==
    [include_reason_in_content : {None, Some(TRUE), Some(FALSE)},
     include_reason_in_content_tag : {None, Some(<<"reasoning">>)},
     additional_params : {None, Some("custom_param" :> "custom_value"),
                          Some(IncludeKey :> FALSE)}]

\* AgentBuilder::build, as the tests of lines 317-351 show it
BuildAgent(b) ==
    [include_reason_in_content |->
         IF b.include_reason_in_content = None THEN TRUE
         ELSE b.include_reason_in_content[1],
     include_reason_in_content_tag |->
         IF b.include_reason_in_content_tag = None THEN <<"think">>
         ELSE b.include_reason_in_content_tag[1],
     additional_params |-> b.additional_params]

\* json_utils::merge(a, b): the entries of b inserted into a
Merge(a, b) == b @@ a

\* lines 78-81
ReasoningParams(a) ==
    (IncludeKey :> a.include_reason_in_content)
    @@ (TagKey :> a.include_reason_in_content_tag)

\* a request that carries only the agent's own parameters
MergedParamsOwnOnly(a) ==
    IF a.additional_params # None THEN a.additional_params[1]
    ELSE ReasoningParams(a)

\* lines 83-87
MergedParams(a) ==
    IF a.additional_params # None
    THEN Merge(ReasoningParams(a), a.additional_params[1])
    ELSE ReasoningParams(a)

InitAgentWith(bodies) ==
    /\ builder \in Builders
    /\ agent = None
    /\ request = None
    /\ status \in Statuses
    /\ returned = None
    /\ cancelled = FALSE
    /\ stream \in bodies
    /\ include_reason_in_content = None
    /\ include_reason_in_content_tag = None
    /\ final_usage = ZeroUsage
    /\ partial_data = None
    /\ calls = <<>>
    /\ reasoning_buffer = <<>>
    /\ content_buffer = <<>>
    /\ has_reasoning = FALSE
    /\ pc = "build"
    /\ events = <<>>
    /\ parsed = <<>>

generator == <<stream, final_usage, partial_data, calls, reasoning_buffer,
               content_buffer, has_reasoning, events, parsed>>

\* ---------------------------------------------------------------------
\* Actions
\* ---------------------------------------------------------------------
\* AgentBuilder::build
Build ==
    /\ pc = "build"
    /\ agent' = Some(BuildAgent(builder))
    /\ pc' = "completion"
    /\ UNCHANGED <<builder, request, status, returned, cancelled,
                   include_reason_in_content, include_reason_in_content_tag,
                   generator>>

\* Agent::stream_chat (lines 256-267) asks stream_completion for the
\* request, which is Agent::completion (lines 61-98, 235-245)
Completion ==
    /\ pc = "completion"
    /\ request' = Some([additional_params |-> MergedParams(agent[1])])
    /\ pc' = "stream"
    /\ UNCHANGED <<builder, agent, status, returned, cancelled,
                   include_reason_in_content, include_reason_in_content_tag,
                   generator>>

\* .stream() of the request: CompletionModel::stream (streaming.rs lines
\* 60-75), which ends in send_compatible_streaming_request (lines 77-81)
StreamCall ==
    /\ pc = "stream"
    /\ \/ /\ include_reason_in_content' = Default[1]
          /\ include_reason_in_content_tag' = Default[2]
          /\ pc' = "send"
          /\ UNCHANGED returned
       \/ /\ returned' = Some(RequestError)     \* create_completion_request(..)?
          /\ pc' = "failed"
          /\ UNCHANGED <<include_reason_in_content, include_reason_in_content_tag>>
    /\ UNCHANGED <<builder, agent, request, status, cancelled, generator>>

\* line 88: request_builder.send().await?
Send ==
    /\ pc = "send"
    /\ \/ /\ pc' = "status"
          /\ UNCHANGED returned
       \/ /\ pc' = "failed"
          /\ returned' = Some(HttpError)
    /\ UNCHANGED <<builder, agent, request, status, cancelled, stream,
                   include_reason_in_content, include_reason_in_content_tag,
                   final_usage, partial_data, calls, reasoning_buffer,
                   content_buffer, has_reasoning, events, parsed>>

\* the call without its status check
CheckStatusLenient ==
    /\ pc = "status"
    /\ returned' = Some(OkStream)
    /\ pc' = "next"
    /\ UNCHANGED <<builder, agent, request, status, cancelled, stream,
                   include_reason_in_content, include_reason_in_content_tag,
                   final_usage, partial_data, calls, reasoning_buffer,
                   content_buffer, has_reasoning, events, parsed>>

\* lines 90-96 and, the generator being lazy, the return of line 282
CheckStatus ==
    /\ pc = "status"
    /\ \/ /\ IsSuccess(status)
          /\ returned' = Some(OkStream)
          /\ pc' = "next"
       \/ /\ ~IsSuccess(status)
          /\ \/ returned' = Some(ProviderError(status, stream))
             \/ returned' = Some(HttpError)    \* response.text().await?
          /\ pc' = "failed"
    /\ UNCHANGED <<builder, agent, request, status, cancelled, stream,
                   include_reason_in_content, include_reason_in_content_tag,
                   final_usage, partial_data, calls, reasoning_buffer,
                   content_buffer, has_reasoning, events, parsed>>

\* stream.next() yields Ok(chunk), any non-empty prefix of what is left,
\* and the body of the while loop runs on it
NextChunk ==
    /\ pc = "next"
    /\ \E n \in 1..Len(stream) :
          \E st \in {ChunkStep(Cur, SubSeq(stream, 1, n))} :
              /\ stream' = SubSeq(stream, n + 1, Len(stream))
              /\ final_usage' = st.final_usage
              /\ partial_data' = st.partial_data
              /\ calls' = st.calls
              /\ reasoning_buffer' = st.reasoning_buffer
              /\ content_buffer' = st.content_buffer
              /\ has_reasoning' = st.has_reasoning
              /\ events' = st.events
              /\ parsed' = st.parsed
              /\ pc' = IF st.panicked THEN "panicked"
                       ELSE IF st.broke THEN "merge" ELSE "next"
    /\ UNCHANGED config

\* stream.next() yields Err(e)
TransportError ==
    /\ pc = "next"
    /\ events' = Append(events, Err("HttpError"))
    /\ pc' = "merge"
    /\ UNCHANGED <<stream, config, final_usage, partial_data, calls,
                   reasoning_buffer, content_buffer, has_reasoning, parsed>>

\* stream.next() yields None
EndOfInput ==
    /\ pc = "next"
    /\ stream = <<>>
    /\ pc' = "merge"
    /\ UNCHANGED <<stream, config, final_usage, partial_data, calls,
                   reasoning_buffer, content_buffer, has_reasoning, events, parsed>>

\* lines 234-267
FlushMerged ==
    /\ pc = "merge"
    /\ events' = events \o MergedEvents(Cur)
    /\ pc' = "calls"
    /\ UNCHANGED <<stream, config, final_usage, partial_data, calls,
                   reasoning_buffer, content_buffer, has_reasoning, parsed>>

\* the two blocks after the loop in the other order
FlushCallsFirst ==
    /\ pc = "merge"
    /\ \E order \in Orders(DOMAIN calls) :
          events' = events \o LeftoverEvents(calls, order) \o MergedEvents(Cur)
    /\ calls' = <<>>
    /\ pc' = "final"
    /\ UNCHANGED <<stream, config, final_usage, partial_data,
                   reasoning_buffer, content_buffer, has_reasoning, parsed>>

\* lines 269-275: `for .. in calls` consumes the map
FlushCalls ==
    /\ pc = "calls"
    /\ \E order \in Orders(DOMAIN calls) :
          events' = events \o LeftoverEvents(calls, order)
    /\ calls' = <<>>
    /\ pc' = "final"
    /\ UNCHANGED <<stream, config, final_usage, partial_data,
                   reasoning_buffer, content_buffer, has_reasoning, parsed>>

\* lines 277-279
Final ==
    /\ pc = "final"
    /\ events' = Append(events, FinalResponse(final_usage))
    /\ pc' = "done"
    /\ UNCHANGED <<stream, config, final_usage, partial_data, calls,
                   reasoning_buffer, content_buffer, has_reasoning, parsed>>

Next ==
    \/ Send
    \/ CheckStatus
    \/ NextChunk
    \/ TransportError
    \/ EndOfInput
    \/ FlushMerged
    \/ FlushCalls
    \/ Final

\* the same, for a request that comes from an agent
NextAgent ==
    \/ Build
    \/ Completion
    \/ StreamCall
    \/ Next

\* the consumer drops the stream where the generator flushes instead
DropFlushes ==
    /\ returned = Some(OkStream)
    /\ pc \in {"next", "merge", "calls", "final"}
    /\ cancelled' = TRUE
    /\ pc' = "merge"
    /\ UNCHANGED <<builder, agent, request, status, returned,
                   include_reason_in_content, include_reason_in_content_tag,
                   generator>>

\* the consumer drops the stream before FinalResponse: the generator of
\* lines 100-280 is dropped where it is suspended, with its locals
Drop ==
    /\ returned = Some(OkStream)
    /\ pc \in {"next", "merge", "calls", "final"}
    /\ cancelled' = TRUE
    /\ pc' = "dropped"
    /\ final_usage' = ZeroUsage
    /\ partial_data' = None
    /\ calls' = <<>>
    /\ reasoning_buffer' = <<>>
    /\ content_buffer' = <<>>
    /\ has_reasoning' = FALSE
    /\ UNCHANGED <<builder, agent, request, status, returned, stream,
                   include_reason_in_content, include_reason_in_content_tag,
                   events, parsed>>

\* the same, for a consumer that may stop pulling
NextCancel ==
    \/ Next
    \/ Drop

\* ---------------------------------------------------------------------
\* The run as a function: the chunks in the given cut, then the end of
\* stream with the map visited in ascending slot order
\* ---------------------------------------------------------------------
RECURSIVE RunChunks(_, _)
RunChunks(st, chunks) ==
    IF chunks = <<>> \/ st.panicked \/ st.broke THEN st
    ELSE RunChunks(ChunkStep(st, Head(chunks)), Tail(chunks))

Ascending(S) == CHOOSE o \in Orders(S) : \A i, j \in 1..Cardinality(S) :
                                            i < j => o[i] < o[j]

Outcome(st) ==
    IF st.panicked THEN st.events
    ELSE st.events
         \o MergedEvents(st)
         \o LeftoverEvents(st.calls, Ascending(DOMAIN st.calls))
         \o <<FinalResponse(st.final_usage)>>

\* ---------------------------------------------------------------------
\* Specifications: the same reader on different families of bodies
\* ---------------------------------------------------------------------
\* framing: well-formed and malformed lines, a two-byte character
WireLines == {FrameLine(FContentX), FrameLine(FContentY), FrameLine(FUsage1),
              BadClosedLine, BadOpenLine, BlankLine}

Init == InitWith(Bodies(WireLines), {Default})

Spec == Init /\ [][Next]_vars

\* reasoning and content
TextLines == {FrameLine(FContentX), FrameLine(FReason), FrameLine(FBoth),
              FrameLine(FReasonBlank)}

InitText == InitWith(Bodies(TextLines), {Default, <<FALSE, <<"reasoning">>>>})

SpecText == InitText /\ [][Next]_vars

\* tool calls
ToolLines == {FrameLine(FStart01), FrameLine(FCont0a1), FrameLine(FCont0b),
              FrameLine(FNoName)}

InitTools == InitWith(Bodies(ToolLines), {Default})

SpecTools == InitTools /\ [][Next]_vars

\* usage snapshots
UsageLines == {FrameLine(FUsage1), FrameLine(FUsage2), FrameLine(FContentX),
               BadUsageLine}

InitUsage == InitWith(Bodies(UsageLines), {Default})

SpecUsage == InitUsage /\ [][Next]_vars

\* immediate and deferred events: text beside an atomic call, reasoning,
\* a call left in the map
OrderLines == {FrameLine(FAtomic), FrameLine(FBoth), FrameLine(FStart0),
               FrameLine(FCont0w)}

InitOrder == InitWith(Bodies(OrderLines), {Default, <<FALSE, <<"reasoning">>>>})

SpecOrder == InitOrder /\ [][Next]_vars

\* one slot used by an atomic call, a start and continuations; an orphan
SlotLines == {FrameLine(FAtomic), FrameLine(FStart0), FrameLine(FCont0w),
              FrameLine(FCont1w)}

InitSlots == InitWith(Bodies(SlotLines), {Default})

SpecSlots == InitSlots /\ [][Next]_vars

\* the effect of single fragments: an orphan beside other parts of its
\* frame, atomic calls with good and bad arguments
EffectLines == {FrameLine(FOrphanMix), FrameLine(FAtomic), FrameLine(FAtomicBad),
                FrameLine(FStart1)}

InitEffects == InitWith(Bodies(EffectLines), {Default})

SpecEffects == InitEffects /\ [][Next]_vars

\* frames without a choice and with two
ChoiceLines == {FrameLine(FUsage1), FrameLine(FNoChoice),
                FrameLine(FTwoChoices), FrameLine(FOrphanMix)}

InitChoices == InitWith(Bodies(ChoiceLines), {Default, <<FALSE, <<"reasoning">>>>})

SpecChoices == InitChoices /\ [][Next]_vars

\* blank reasoning and blank content
BlankLines == {FrameLine(FContentBlank), FrameLine(FReasonBlank),
               FrameLine(FContentX), FrameLine(FReason)}

InitBlank == InitWith(Bodies(BlankLines), {Default, <<FALSE, <<"reasoning">>>>})

SpecBlank == InitBlank /\ [][Next]_vars

\* a request built by an agent and streamed by CompletionModel::stream
AgentLines == {FrameLine(FReason), FrameLine(FContentX)}

InitAgent == InitAgentWith(Bodies(AgentLines))

SpecAgent == InitAgent /\ [][NextAgent]_vars

\* a consumer that may drop the stream
InitCancel == InitWith(Bodies(OrderLines), {Default})

SpecCancel == InitCancel /\ [][NextCancel]_vars

\* ---------------------------------------------------------------------
\* Reading the history
\* ---------------------------------------------------------------------
IsMessage(e) == e.kind = "Message"

Texts(evs) == LET ms == SelectSeq(evs, IsMessage)
              IN  [i \in 1..Len(ms) |-> ms[i].text]

Ended == pc \in {"done", "panicked"}

\* ---------------------------------------------------------------------
\* C1: when the sequence has ended, whatever the frames were, its last
\* event is a FinalResponse and it holds no other FinalResponse.
\* ---------------------------------------------------------------------
C1_OneFinalResponseLast ==
    Ended =>
        /\ events # <<>>
        /\ Last(events).kind = "FinalResponse"
        /\ Cardinality({i \in 1..Len(events) : events[i].kind = "FinalResponse"}) = 1

\* ---------------------------------------------------------------------
\* C2: an Error event (transport or decode failure) is the last event of
\* the sequence: nothing is emitted after it.
\* ---------------------------------------------------------------------
C2_ErrorIsTerminal ==
    \A i \in 1..Len(events) : events[i].kind = "Err" => i = Len(events)

\* ---------------------------------------------------------------------
\* C3: the events of a body do not depend on where it is cut: from every
\* position of the reader, delivering what is left in one chunk and
\* delivering it in two chunks cut anywhere give the same events.
\* ---------------------------------------------------------------------
C3_ChunkingInvariant ==
    (pc = "next" /\ stream # <<>>) =>
        \A n \in 1..(Len(stream) - 1) :
            Outcome(RunChunks(Cur, <<SubSeq(stream, 1, n),
                                     SubSeq(stream, n + 1, Len(stream))>>))
                = Outcome(RunChunks(Cur, <<stream>>))

\* ---------------------------------------------------------------------
\* C10: a data line whose payload is not a frame, between two well-formed
\* frame lines, has no effect: the three lines leave the reader where the
\* two well-formed lines alone leave it.
\* ---------------------------------------------------------------------
WellFormed(line) == HasPrefix(line) /\ ParseChunk(StripPrefix(line)) # None

Malformed(line) == HasPrefix(line) /\ ParseChunk(StripPrefix(line)) = None

C10_MalformedBetweenFrames ==
    LET ls == Lines(stream)
    IN  (/\ pc = "next"
         /\ partial_data = None
         /\ Len(ls) >= 3
         /\ WellFormed(ls[1]) /\ Malformed(ls[2]) /\ WellFormed(ls[3]))
        => LinesLoop(Cur, <<ls[1], ls[2], ls[3]>>) = LinesLoop(Cur, <<ls[1], ls[3]>>)

\* ---------------------------------------------------------------------
\* The fragments the parsed frames carried (first choice only)
\* ---------------------------------------------------------------------
ReasoningIn(f) == IF f.choices = <<>> THEN None ELSE f.choices[1].delta.reasoning_content

ContentIn(f) == IF f.choices = <<>> THEN None ELSE f.choices[1].delta.content

FragmentsIn(f) == IF f.choices = <<>> THEN <<>> ELSE f.choices[1].delta.tool_calls

CarriesReasoning(f) == ReasoningIn(f) # None

CarriesContent(f) == ContentIn(f) # None

CarriesUsage(f) == f.usage # None

ReasoningFragments(log) ==
    LET fs == SelectSeq(log, CarriesReasoning)
    IN  [i \in 1..Len(fs) |-> ReasoningIn(fs[i])[1]]

ContentFragments(log) ==
    LET fs == SelectSeq(log, CarriesContent)
    IN  [i \in 1..Len(fs) |-> ContentIn(fs[i])[1]]

\* index of the first frame that carries reasoning, Len + 1 when none does
FirstReasoning(log) ==
    IF \E i \in 1..Len(log) : CarriesReasoning(log[i])
    THEN CHOOSE i \in 1..Len(log) :
            /\ CarriesReasoning(log[i])
            /\ \A j \in 1..(i - 1) : ~CarriesReasoning(log[j])
    ELSE Len(log) + 1

\* the block the specification prescribes: "<t>\nR\n</t>\n"
TaggedBlock(t, R) ==
    <<"<">> \o t \o <<">">> \o <<"\n">> \o R \o <<"\n">>
        \o <<"<", "/">> \o t \o <<">">> \o <<"\n">>

Flushed == pc \in {"calls", "final", "done"}

Reading == pc \in {"next", "merge"}

\* ---------------------------------------------------------------------
\* C4 (as claimed): with merging enabled and non-blank reasoning R, no
\* TextDelta is emitted before the end of input and the only TextDelta of
\* the stream is the wrapped R followed by all the content C.
\* ---------------------------------------------------------------------
C4_SingleMergedDelta ==
    LET R == Concat(ReasoningFragments(parsed))
        C == Concat(ContentFragments(parsed))
    IN  (include_reason_in_content /\ ~IsBlank(R) /\ pc # "panicked") =>
            /\ Reading => Texts(events) = <<>>
            /\ Flushed => Texts(events) = <<TaggedBlock(include_reason_in_content_tag, R) \o C>>

\* ---------------------------------------------------------------------
\* C4 (amended): with merging enabled and non-blank reasoning R, the
\* content fragments of the frames before the first frame that carries
\* reasoning are emitted at once, one TextDelta each; the content of that
\* frame and of the later frames is emitted by no TextDelta before the end
\* of input, and the end of stream adds exactly one TextDelta, the wrapped
\* R followed by that later content.
\* ---------------------------------------------------------------------
C4_MergedDeltaAfterReasoning ==
    LET R == Concat(ReasoningFragments(parsed))
        k == FirstReasoning(parsed)
        early == ContentFragments(SubSeq(parsed, 1, k - 1))
        late == Concat(ContentFragments(SubSeq(parsed, k, Len(parsed))))
    IN  (include_reason_in_content /\ ~IsBlank(R) /\ pc # "panicked") =>
            /\ Reading => Texts(events) = early
            /\ Flushed => Texts(events) =
                   Append(early, TaggedBlock(include_reason_in_content_tag, R) \o late)

C4_Witness ==
    /\ pc = "done"
    /\ include_reason_in_content
    /\ parsed = <<FContentX, FReason, FBoth>>

\* ---------------------------------------------------------------------
\* C5: with merging disabled, non-blank reasoning R and non-blank content
\* C, the TextDeltas of the finished stream are the wrapped R, then C.
\* ---------------------------------------------------------------------
C5_ReasoningThenContent ==
    LET R == Concat(ReasoningFragments(parsed))
        C == Concat(ContentFragments(parsed))
    IN  (/\ ~include_reason_in_content
         /\ pc = "done"
         /\ \A i \in 1..Len(events) : events[i].kind # "Err"
         /\ ~IsBlank(R)
         /\ ~IsBlank(C)) =>
            Texts(events) = <<TaggedBlock(include_reason_in_content_tag, R), C>>

\* ---------------------------------------------------------------------
\* C6: while no parsed frame carried reasoning, nothing is buffered and
\* the TextDeltas are the content fragments, one each, in arrival order;
\* and what is left of the body gives the same events under every merge
\* policy and tag under which it carries no reasoning.
\* ---------------------------------------------------------------------
NoReasoning(log) == \A i \in 1..Len(log) : ~CarriesReasoning(log[i])

C6_PolicyIrrelevantWithoutReasoning ==
    (pc # "panicked" /\ NoReasoning(parsed)) =>
        /\ content_buffer = <<>>
        /\ Texts(events) = ContentFragments(parsed)
        /\ pc = "next" =>
              \A inc \in BOOLEAN, tag \in Tags :
                  LET alt == RunChunks([Cur EXCEPT !.include = inc, !.tag = tag],
                                       <<stream>>)
                  IN  NoReasoning(alt.parsed) =>
                          Outcome(alt) = Outcome(RunChunks(Cur, <<stream>>))

C6_Witness ==
    /\ pc = "done"
    /\ include_reason_in_content
    /\ NoReasoning(parsed)
    /\ Len(ContentFragments(parsed)) >= 2

\* ---------------------------------------------------------------------
\* C7: a slot whose fragments are one start and then only continuations
\* that join to valid JSON gives exactly one ToolCallReady, at the end of
\* the stream and not before, with the start's id and name and the parsed
\* joined text.
\* ---------------------------------------------------------------------
Slots == {0, 1}

FragmentsOf(log, slot) ==
    LET ofSlot(tc) == tc.index = slot
    IN  SelectSeq(Concat([i \in 1..Len(log) |-> FragmentsIn(log[i])]), ofSlot)

IsStart(tc) == tc.function.name # None /\ tc.function.arguments = <<>>

IsContinuation(tc) ==
    /\ tc.function.name = None \/ tc.function.name[1] = <<>>
    /\ tc.function.arguments # <<>>

Joined(h) == Concat([i \in 1..(Len(h) - 1) |-> h[i + 1].function.arguments])

StartedThenContinued(h) ==
    /\ Len(h) >= 2
    /\ IsStart(h[1])
    /\ \A i \in 2..Len(h) : IsContinuation(h[i])

Count(evs, e) == Cardinality({i \in 1..Len(evs) : evs[i] = e})

C7_StartThenContinuations ==
    \A slot \in Slots :
        LET h == FragmentsOf(parsed, slot)
        IN  (/\ pc # "panicked"
             /\ StartedThenContinued(h)
             /\ ParseValue(Joined(h)) # None)
            => LET ready == ToolCall(IF h[1].id = None THEN <<>> ELSE h[1].id[1],
                                     h[1].function.name[1],
                                     ParseValue(Joined(h))[1])
               IN  Count(events, ready) = IF pc \in {"final", "done"} THEN 1 ELSE 0

C7_Witness ==
    /\ pc = "done"
    /\ Len(FragmentsOf(parsed, 0)) = 3
    /\ StartedThenContinued(FragmentsOf(parsed, 0))
    /\ ParseValue(Joined(FragmentsOf(parsed, 0))) # None

\* ---------------------------------------------------------------------
\* C8: for a slot that has an entry, two continuation pieces, with or
\* without a fragment of another slot between them, leave the same entry
\* and give the same ToolCallReady as one continuation carrying the
\* joined text.
\* ---------------------------------------------------------------------
Pieces == {<<"{">>, <<"{", "k">>, <<"k", "}">>, <<"}">>}

Continuation(slot, piece) == StreamingToolCall(slot, None, None, piece)

OtherFragments(slot) ==
    {StreamingToolCall(s, Some(<<"2">>), Some(<<"g">>), <<>>) : s \in Slots \ {slot}}
    \cup {StreamingToolCall(s, None, None, <<"{", "}">>) : s \in Slots \ {slot}}
    \cup {StreamingToolCall(s, Some(<<"3">>), Some(<<"h">>), <<"{", "}">>) : s \in Slots \ {slot}}

C8_PartitionIndependent ==
    \A slot \in DOMAIN calls :
        \A a \in Pieces, b \in Pieces :
            \A between \in {<<>>} \cup {<<o>> : o \in OtherFragments(slot)} :
                LET acc == [calls |-> calls, out |-> <<>>, panicked |-> FALSE]
                    split == ToolCallLoop(acc, <<Continuation(slot, a)>> \o between
                                               \o <<Continuation(slot, b)>>)
                    whole == ToolCallLoop(acc, <<Continuation(slot, a \o b)>> \o between)
                IN  /\ split.calls[slot] = whole.calls[slot]
                    /\ LeftoverEvents(split.calls, <<slot>>)
                           = LeftoverEvents(whole.calls, <<slot>>)

C8_Witness ==
    /\ pc = "next"
    /\ 0 \in DOMAIN calls
    /\ 1 \in DOMAIN calls
    /\ calls[0][3] = <<"{", "k">>

\* ---------------------------------------------------------------------
\* C9: the usage of FinalResponse is the usage of the last parsed frame
\* that carried one, and the zero usage when none did.
\* ---------------------------------------------------------------------
LastUsage(log) ==
    LET fs == SelectSeq(log, CarriesUsage)
    IN  IF fs = <<>> THEN ZeroUsage ELSE Last(fs).usage[1]

C9_UsageIsLastSeen ==
    \A i \in 1..Len(events) :
        events[i].kind = "FinalResponse" => events[i].usage = LastUsage(parsed)

C9_Witness ==
    /\ pc = "done"
    /\ Len(SelectSeq(parsed, CarriesUsage)) >= 2
    /\ parsed[1].usage # Last(parsed).usage
    /\ Last(parsed).usage # None

\* ---------------------------------------------------------------------
\* C11: no frame content aborts the sequence: whatever the shape of a
\* tool-call fragment, the generator goes on to the next fragment or frame
\* and never unwinds.
\* ---------------------------------------------------------------------
C11_NoFrameAborts == pc # "panicked"

\* ---------------------------------------------------------------------
\* C15: a response whose status is not a success
\* ---------------------------------------------------------------------
NothingStreamed ==
    /\ events = <<>>
    /\ parsed = <<>>
    /\ partial_data = None
    /\ calls = <<>>
    /\ final_usage = ZeroUsage

\* C15 as claimed: the step that sees a status that is not a success
\* returns a ProviderError carrying the status and the body text.
C15_ProviderErrorAlways ==
    [][(pc = "status" /\ ~IsSuccess(status))
          => returned' = Some(ProviderError(status, stream))]_vars

\* C15, amended: with a status that is not a success the call fails with a
\* ProviderError carrying the status and the body text, or with the
\* transport error of a body that could not be read (or of a request that
\* could not be sent); either way no stream exists: no chunk is read and no
\* event is produced.
C15_FailedStatusNoStream ==
    (pc \notin {"send", "status"} /\ ~IsSuccess(status))
    => /\ pc = "failed"
       /\ returned \in {Some(ProviderError(status, stream)), Some(HttpError)}
       /\ NothingStreamed
       /\ ~ENABLED Next

C15_Witness ==
    /\ pc = "failed"
    /\ stream # <<>>
    /\ returned = Some(ProviderError(status, stream))

\* ---------------------------------------------------------------------
\* Immediate and deferred events, read from the history
\* ---------------------------------------------------------------------
IsAtomic(tc) == ~IsStart(tc) /\ ~IsContinuation(tc) /\ tc.function.name # None

\* the ToolCallReady events of the atomic fragments of one frame
AtomicEvents(f) ==
    LET ready(tc) == IsAtomic(tc) /\ ParseValue(tc.function.arguments) # None
        tcs == SelectSeq(FragmentsIn(f), ready)
    IN  [i \in 1..Len(tcs) |->
            ToolCall(IF tcs[i].id = None THEN <<>> ELSE tcs[i].id[1],
                     tcs[i].function.name[1],
                     ParseValue(tcs[i].function.arguments)[1])]

\* the events frame i gives rise to at once
ImmediateOf(log, i) ==
    AtomicEvents(log[i])
    \o (IF /\ CarriesContent(log[i])
           /\ ~(include_reason_in_content /\ FirstReasoning(log) <= i)
        THEN <<Message(ContentIn(log[i])[1])>>
        ELSE <<>>)

Immediate(log) == Concat([i \in 1..Len(log) |-> ImmediateOf(log, i)])

NotErr(e) == e.kind # "Err"

Yielded == SelectSeq(events, NotErr)

\* what was yielded after the immediate events
Deferred == SubSeq(Yielded, Len(Immediate(parsed)) + 1, Len(Yielded))

\* ---------------------------------------------------------------------
\* C12: the immediate TextDelta and atomic ToolCallReady events are
\* yielded in the order of arrival of their frames, and everything yielded
\* beyond them (the deferred events) comes after all of them and only once
\* reading is over.
\* ---------------------------------------------------------------------
C12_ImmediateThenDeferred ==
    pc # "panicked" =>
        LET imm == Immediate(parsed)
        IN  /\ Len(Yielded) >= Len(imm)
            /\ SubSeq(Yielded, 1, Len(imm)) = imm
            /\ ~Flushed => Yielded = imm

C12_Witness ==
    /\ pc = "done"
    /\ \E i, j \in 1..Len(Immediate(parsed)) :
          /\ i < j
          /\ Immediate(parsed)[i].kind = "ToolCall"
          /\ Immediate(parsed)[j].kind = "Message"
    /\ Len(Deferred) >= 2
    /\ Deferred[1].kind = "Message"

\* ---------------------------------------------------------------------
\* C13: after normal input exhaustion the events after the immediate ones
\* are merged TextDeltas, then leftover ToolCallReadys, then the one
\* FinalResponse, which carries the last usage seen.
\* ---------------------------------------------------------------------
Rank(e) == IF e.kind = "Message" THEN 1 ELSE IF e.kind = "ToolCall" THEN 2 ELSE 3

C13_TailOrder ==
    (pc = "done" /\ Yielded = events) =>
        /\ Deferred # <<>>
        /\ Last(Deferred) = FinalResponse(LastUsage(parsed))
        /\ \A i, j \in 1..Len(Deferred) : i < j =>
              /\ Rank(Deferred[i]) <= Rank(Deferred[j])
              /\ Deferred[i].kind # "FinalResponse"

C13_Witness ==
    /\ pc = "done"
    /\ Yielded = events
    /\ \E i \in 1..(Len(Deferred) - 1) :
          /\ Deferred[i].kind = "Message"
          /\ Deferred[i + 1].kind = "ToolCall"

\* ---------------------------------------------------------------------
\* C14: a slot and its atomic call
\* ---------------------------------------------------------------------
HasStart(h) == \E i \in 1..Len(h) : IsStart(h[i])

\* an atomic ToolCallReady was emitted for the slot while it was not in
\* the map
AtomicFirst(h) ==
    \E i \in 1..Len(h) :
        /\ IsAtomic(h[i])
        /\ ParseValue(h[i].function.arguments) # None
        /\ \A j \in 1..(i - 1) : ~IsStart(h[j])

IsToolCall(e) == e.kind = "ToolCall"

\* C14 as claimed: once a ToolCallReady has been emitted atomically for a
\* slot, the slot is never entered into the accumulator map.
C14_NoEntryAfterAtomic ==
    \A slot \in Slots :
        (pc # "panicked" /\ AtomicFirst(FragmentsOf(parsed, slot)))
        => slot \notin DOMAIN calls

\* C14, amended: a slot is entered into the accumulator map by a start
\* fragment only; an atomic ToolCallReady leaves the map alone, so while no
\* start fragment arrives for a slot the slot stays out of the map, and on
\* a stream without start fragments the ToolCallReady events are exactly
\* the atomic ones, one for each.
C14_EntryOnlyByStart ==
    pc # "panicked" =>
        /\ \A slot \in Slots :
              ~HasStart(FragmentsOf(parsed, slot)) => slot \notin DOMAIN calls
        /\ (\A slot \in Slots : ~HasStart(FragmentsOf(parsed, slot)))
              => SelectSeq(events, IsToolCall)
                   = Concat([i \in 1..Len(parsed) |-> AtomicEvents(parsed[i])])

C14_Witness ==
    /\ pc = "done"
    /\ \A slot \in Slots : ~HasStart(FragmentsOf(parsed, slot))
    /\ LET h == FragmentsOf(parsed, 0)
       IN  /\ Len(h) = 2
           /\ IsAtomic(h[1])
           /\ IsContinuation(h[2])
    /\ Len(SelectSeq(events, IsToolCall)) = 1

\* ---------------------------------------------------------------------
\* The policy of a stream opened by an agent
\* ---------------------------------------------------------------------
Opened == agent # None /\ returned = Some(OkStream)

\* ---------------------------------------------------------------------
\* C16: on a stream that CompletionModel::stream opened from the request
\* of an agent, the merge policy in force is the one the agent was
\* configured with and put into additional_params.
\* ---------------------------------------------------------------------
C16_AgentPolicyApplied ==
    Opened =>
        /\ include_reason_in_content = agent[1].include_reason_in_content
        /\ include_reason_in_content_tag = agent[1].include_reason_in_content_tag

\* ---------------------------------------------------------------------
\* C17: the additional_params of the request the agent built
\* ---------------------------------------------------------------------
OwnParams == IF agent[1].additional_params = None THEN <<>>
             ELSE agent[1].additional_params[1]

CarriesConfigured(params) ==
    /\ IncludeKey \in DOMAIN params
    /\ params[IncludeKey] = agent[1].include_reason_in_content
    /\ TagKey \in DOMAIN params
    /\ params[TagKey] = agent[1].include_reason_in_content_tag

CarriesOwn(params) ==
    \A k \in DOMAIN OwnParams : k \in DOMAIN params /\ params[k] = OwnParams[k]

\* C17 as claimed: the request always carries the two reasoning keys with
\* the agent's configured values and every key of the agent's own
\* additional_params unchanged.
C17_ParamsCarryBoth ==
    request # None =>
        /\ CarriesConfigured(request[1].additional_params)
        /\ CarriesOwn(request[1].additional_params)

\* C17, amended: both hold for an agent whose own additional_params do
\* not themselves use the two reasoning keys.
C17_ParamsCarryBothWhenDisjoint ==
    (request # None /\ DOMAIN OwnParams \cap {IncludeKey, TagKey} = {}) =>
        /\ CarriesConfigured(request[1].additional_params)
        /\ CarriesOwn(request[1].additional_params)

C17_Witness ==
    /\ request # None
    /\ DOMAIN OwnParams = {"custom_param"}
    /\ ~agent[1].include_reason_in_content
    /\ request[1].additional_params["custom_param"] = "custom_value"

\* ---------------------------------------------------------------------
\* C18: with no reasoning configuration the policy is (true, "think"):
\* the stream send_compatible_streaming_request opens runs under it and
\* yields what send_compatible_streaming_request_with_config(_, true,
\* "think") yields on the same body, and an agent keeps these values for
\* whatever was not set on its builder.
\* ---------------------------------------------------------------------
C18_DefaultPolicy ==
    /\ (Opened /\ pc = "next") =>
          /\ include_reason_in_content = TRUE
          /\ include_reason_in_content_tag = <<"think">>
          /\ Outcome(RunChunks(Cur, <<stream>>))
               = Outcome(RunChunks([Cur EXCEPT !.include = TRUE, !.tag = <<"think">>],
                                   <<stream>>))
    /\ agent # None =>
          /\ builder.include_reason_in_content = None
                => agent[1].include_reason_in_content = TRUE
          /\ builder.include_reason_in_content_tag = None
                => agent[1].include_reason_in_content_tag = <<"think">>

C18_Witness ==
    /\ Opened
    /\ pc = "done"
    /\ builder.include_reason_in_content = None
    /\ builder.include_reason_in_content_tag = None
    /\ \E i \in 1..Len(events) :
          events[i] = Message(TaggedBlock(<<"think">>, <<"q">>) \o <<"x">>)

C20_ReasoningOptional ==
    /\ pc \in {"next", "merge", "calls", "final", "done"}
          => has_reasoning = (\E i \in 1..Len(parsed) : CarriesReasoning(parsed[i]))
    /\ (pc = "next" /\ partial_data = None) =>
          LET only == LineStep(Cur, Prefix \o Encode(FContentX))
              both == LineStep(Cur, Prefix \o Encode(FBoth))
          IN  /\ Len(only.parsed) = Len(parsed) + 1
              /\ ContentIn(Last(only.parsed)) = Some(<<"x">>)
              /\ ReasoningIn(Last(only.parsed)) = None
              /\ only.has_reasoning = has_reasoning
              /\ only.reasoning_buffer = reasoning_buffer
              /\ Len(both.parsed) = Len(parsed) + 1
              /\ ContentIn(Last(both.parsed)) = Some(<<"z">>)
              /\ ReasoningIn(Last(both.parsed)) = Some(<<"p">>)
              /\ both.has_reasoning
              /\ both.reasoning_buffer = reasoning_buffer \o <<"p">>
              /\ IF include_reason_in_content
                 THEN /\ both.content_buffer = content_buffer \o <<"z">>
                      /\ both.events = events
                 ELSE /\ both.content_buffer = content_buffer
                      /\ both.events = Append(events, Message(<<"z">>))

C20_Witness ==
    /\ pc = "next"
    /\ parsed = <<FContentX, FBoth>>
    /\ include_reason_in_content
    /\ events = <<Message(<<"x">>)>>
    /\ reasoning_buffer = <<"p">>
    /\ content_buffer = <<"z">>

\* ---------------------------------------------------------------------
\* C21: a content fragment goes to the content buffer, and is not yielded,
\* exactly when include_reason_in_content is true and reasoning has been
\* observed by then; otherwise it is yielded at once as one TextDelta and
\* the content buffer stays as it was.
\* ---------------------------------------------------------------------
ContentFrom(log, i) == Concat(ContentFragments(SubSeq(log, i, Len(log))))

C21_BufferedExactlyWhenMerging ==
    /\ pc # "panicked" =>
          content_buffer = IF include_reason_in_content
                           THEN ContentFrom(parsed, FirstReasoning(parsed))
                           ELSE <<>>
    /\ (pc = "next" /\ partial_data = None) =>
          \A f \in {FContentX, FBoth} :
              LET st == LineStep(Cur, Prefix \o Encode(f))
                  content == ContentIn(f)[1]
                  observed == has_reasoning \/ CarriesReasoning(f)
              IN  IF include_reason_in_content /\ observed
                  THEN /\ st.content_buffer = content_buffer \o content
                       /\ st.events = events
                  ELSE /\ st.content_buffer = content_buffer
                       /\ st.events = Append(events, Message(content))

C21_Witness ==
    /\ pc = "next"
    /\ include_reason_in_content
    /\ parsed = <<FContentX, FReason, FContentX>>
    /\ events = <<Message(<<"x">>)>>
    /\ content_buffer = <<"x">>

\* ---------------------------------------------------------------------
\* C22: reasoning text is never yielded while input is read: a TextDelta
\* that holds reasoning text is yielded only after the end of input and
\* begins with the whole reasoning in its tag block; until then the
\* TextDeltas are the content fragments that were not buffered.
\* ---------------------------------------------------------------------
ReasoningBytes(log) ==
    LET R == Concat(ReasoningFragments(log))
    IN  {R[j] : j \in 1..Len(R)}

StartsWith(text, head) ==
    Len(text) >= Len(head) /\ SubSeq(text, 1, Len(head)) = head

C22_NoReasoningWhileReading ==
    pc # "panicked" =>
        /\ ~Flushed => Texts(events) = Texts(Immediate(parsed))
        /\ \A i \in 1..Len(events) :
              (/\ IsMessage(events[i])
               /\ \E j \in 1..Len(events[i].text) :
                     events[i].text[j] \in ReasoningBytes(parsed))
              => /\ Flushed
                 /\ StartsWith(events[i].text,
                               TaggedBlock(include_reason_in_content_tag,
                                           Concat(ReasoningFragments(parsed))))

C22_Witness ==
    /\ pc = "done"
    /\ ~include_reason_in_content
    /\ parsed = <<FBoth, FReason>>
    /\ Texts(events) = <<<<"z">>, TaggedBlock(<<"reasoning">>, <<"p", "q">>)>>

\* ---------------------------------------------------------------------
\* C28: the content buffer is non-empty only under the merge policy with
\* reasoning observed, so when no reasoning was observed the block after
\* the loop yields no TextDelta.
\* ---------------------------------------------------------------------
C28_ContentBufferOnlyWhenMerging ==
    /\ content_buffer # <<>> => (include_reason_in_content /\ has_reasoning)
    /\ (pc # "panicked" /\ NoReasoning(parsed)) =>
          /\ ~has_reasoning
          /\ \A i \in 1..Len(Deferred) : ~IsMessage(Deferred[i])

C28_Witness ==
    /\ pc = "done"
    /\ include_reason_in_content
    /\ parsed = <<FContentX, FContentX>>
    /\ events = <<Message(<<"x">>), Message(<<"x">>), FinalResponse(ZeroUsage)>>

\* ---------------------------------------------------------------------
\* The effect of one fragment on the accumulator
\* ---------------------------------------------------------------------
Acc == [calls |-> calls, out |-> <<>>, panicked |-> FALSE]

IdOf(tc) == IF tc.id = None THEN <<>> ELSE tc.id[1]

Names == {None, Some(<<>>), Some(<<"f">>)}

Ids == {None, Some(<<"1">>)}

\* ---------------------------------------------------------------------
\* C23: a fragment with a name and empty arguments sets the entry of its
\* slot to (id or "", name, "") and yields nothing; what the slot held
\* before is gone, the other slots keep their entries.
\* ---------------------------------------------------------------------
StartFragments ==
    {StreamingToolCall(slot, id, name, <<>>) :
        slot \in Slots, id \in Ids, name \in Names \ {None}}

C23_StartSetsEntry ==
    /\ pc \in {"next", "merge"} =>
          \A slot \in Slots :
              LET h == FragmentsOf(parsed, slot)
              IN  (h # <<>> /\ IsStart(Last(h)))
                  => /\ slot \in DOMAIN calls
                     /\ calls[slot] = <<IdOf(Last(h)), Last(h).function.name[1], <<>>>>
    /\ pc = "next" =>
          \A tc \in StartFragments :
              LET r == ToolCallStep(Acc, tc)
              IN  /\ r.out = <<>>
                  /\ ~r.panicked
                  /\ DOMAIN r.calls = DOMAIN calls \cup {tc.index}
                  /\ r.calls[tc.index] = <<IdOf(tc), tc.function.name[1], <<>>>>
                  /\ \A k \in DOMAIN calls \ {tc.index} : r.calls[k] = calls[k]

C23_Witness ==
    /\ pc = "next"
    /\ parsed = <<FStart0, FCont0w, FStart0>>
    /\ calls = (0 :> <<<<"1">>, <<"f">>, <<>>>>)
    /\ events = <<>>

\* ---------------------------------------------------------------------
\* C24: a continuation for a slot without entry leaves the map as it is,
\* yields nothing, and the rest of its frame (later fragments, reasoning,
\* content, usage) is processed all the same.
\* ---------------------------------------------------------------------
OrphanFragments ==
    {StreamingToolCall(slot, id, name, <<"{", "}">>) :
        slot \in Slots \ DOMAIN calls, id \in Ids, name \in {None, Some(<<>>)}}

C24_OrphanSkipped ==
    /\ pc # "panicked" =>
          \A slot \in DOMAIN calls : HasStart(FragmentsOf(parsed, slot))
    /\ pc = "next" =>
          \A tc \in OrphanFragments : ToolCallStep(Acc, tc) = Acc
    /\ (pc = "next" /\ partial_data = None /\ 1 \notin DOMAIN calls) =>
          LET st == LineStep(Cur, Prefix \o Encode(FOrphanMix))
          IN  /\ st.parsed = Append(parsed, FOrphanMix)
              /\ ~st.panicked
              /\ st.calls = (0 :> <<<<"1">>, <<"f">>, <<>>>>) @@ calls
              /\ st.has_reasoning
              /\ st.reasoning_buffer = reasoning_buffer \o <<"q">>
              /\ IF include_reason_in_content
                 THEN /\ st.content_buffer = content_buffer \o <<"x">>
                      /\ st.events = events
                 ELSE /\ st.content_buffer = content_buffer
                      /\ st.events = Append(events, Message(<<"x">>))
              /\ st.final_usage = Usage(1, 2)

C24_Witness ==
    /\ pc = "next"
    /\ parsed = <<FAtomicBad, FOrphanMix>>
    /\ DOMAIN calls = {0}
    /\ events = <<>>
    /\ reasoning_buffer = <<"q">>
    /\ content_buffer = <<"x">>
    /\ final_usage = Usage(1, 2)

\* ---------------------------------------------------------------------
\* C25: a fragment with a non-empty name and non-empty arguments yields
\* one ToolCallReady at once when the arguments parse and nothing when
\* they do not, and leaves the map as it is, the entry of its own slot
\* included.
\* ---------------------------------------------------------------------
AtomicFragments ==
    {StreamingToolCall(slot, id, Some(<<"h">>), arguments) :
        slot \in Slots, id \in Ids,
        arguments \in {<<"{", "}">>, <<"{", "k", "}">>, <<"{">>, <<"k">>}}

C25_AtomicLeavesMap ==
    /\ pc \in {"next", "merge"} =>
          SelectSeq(events, IsToolCall)
            = Concat([i \in 1..Len(parsed) |-> AtomicEvents(parsed[i])])
    /\ pc = "next" =>
          \A tc \in AtomicFragments :
              LET r == ToolCallStep(Acc, tc)
                  arguments == ParseValue(tc.function.arguments)
              IN  /\ r.calls = calls
                  /\ ~r.panicked
                  /\ r.out = IF arguments = None THEN <<>>
                             ELSE <<ToolCall(IdOf(tc), <<"h">>, arguments[1])>>

C25_Witness ==
    /\ pc = "next"
    /\ parsed = <<FOrphanMix, FAtomic, FAtomicBad>>
    /\ calls = (0 :> <<<<"1">>, <<"f">>, <<>>>>)
    /\ SelectSeq(events, IsToolCall) = <<ToolCall(<<"3">>, <<"h">>, {})>>

\* ---------------------------------------------------------------------
\* C26: the slots left in the map at the end of the stream
\* ---------------------------------------------------------------------
LastStart(h) == CHOOSE i \in 1..Len(h) :
                    IsStart(h[i]) /\ \A j \in (i + 1)..Len(h) : ~IsStart(h[j])

\* the argument text a slot has gathered since its last start
Gathered(h) ==
    LET later == SubSeq(h, LastStart(h) + 1, Len(h))
        pieces == SelectSeq(later, IsContinuation)
    IN  Concat([i \in 1..Len(pieces) |-> pieces[i].function.arguments])

\* the slots whose entry yields a ToolCallReady at the end
Completing(log) ==
    {slot \in Slots :
        LET h == FragmentsOf(log, slot)
        IN  HasStart(h) /\ ParseValue(Gathered(h)) # None}

ReadyOf(log, slot) ==
    LET h == FragmentsOf(log, slot)
    IN  ToolCall(IdOf(h[LastStart(h)]), h[LastStart(h)].function.name[1],
                 ParseValue(Gathered(h))[1])

\* C26: at the end of the stream every slot in the map yields exactly one
\* ToolCallReady when its buffer parses and none when it does not (a slot
\* that got no argument text among them); a slot that is dropped keeps
\* neither the other slots' events nor FinalResponse from being yielded.
C26_LeftoverSlots ==
    (pc \in {"final", "done"}) =>
        LET ready == SelectSeq(Deferred, IsToolCall)
        IN  /\ Len(ready) = Cardinality(Completing(parsed))
            /\ \A slot \in Completing(parsed) : Count(ready, ReadyOf(parsed, slot)) = 1
            /\ pc = "done" => Last(events).kind = "FinalResponse"

C26_Witness ==
    /\ pc = "done"
    /\ parsed = <<FStart01, FCont0a1>>
    /\ events = <<ToolCall(<<"2">>, <<"g">>, {}), FinalResponse(ZeroUsage)>>

\* ---------------------------------------------------------------------
\* C27: the hold-over
\* ---------------------------------------------------------------------
Wire == Encode(FContentX)

\* prefixed lines that do not end with a closing brace
OpenLines ==
    {l \in {Prefix \o SubSeq(Wire, 1, k) : k \in 0..Len(Wire)} \cup
            {Prefix \o <<"{", "x">>} :
        ~EndsWithBrace(l)}

\* lines that may come next
FollowingLines ==
    {SubSeq(Wire, k, Len(Wire)) : k \in 1..(Len(Wire) + 1)}
        \cup {Prefix \o Wire, <<"x">>}

\* what the parser makes of a text, as a sequence of zero or one frame
FrameOf(text) == IF ParseChunk(text) = None THEN <<>> ELSE <<ParseChunk(text)[1]>>

\* C27: a prefixed line that does not end with a closing brace gives the
\* parser no frame of its own: its payload is held over, the very next line
\* the reader handles is parsed with the payload in front of it, and after
\* that line the hold-over is empty again; frames are logged in the order
\* of their lines.
C27_HoldOverOneLine ==
    /\ (pc = "next" /\ partial_data = None) =>
          \A open \in OpenLines :
              LET held == LineStep(Cur, open)
              IN  /\ held.parsed = parsed
                  /\ held.events = events
                  /\ held.partial_data = Some(StripPrefix(open))
                  /\ \A line \in FollowingLines :
                        LET st == LineStep(held, line)
                        IN  /\ st.partial_data = None
                            /\ st.parsed = parsed \o FrameOf(StripPrefix(open) \o line)
    /\ (pc = "next" /\ partial_data # None) =>
          \A n \in 1..Len(stream) :
              LET ls == Lines(SubSeq(stream, 1, n))
                  st == LineStep(Cur, ls[1])
              IN  (Utf8Valid(SubSeq(stream, 1, n)) /\ ls # <<>>) =>
                      /\ st.partial_data = None
                      /\ st.parsed = parsed \o FrameOf(partial_data[1] \o ls[1])

C27_Witness ==
    /\ pc = "next"
    /\ parsed = <<FUsage1>>
    /\ partial_data # None
    /\ partial_data[1] # <<>>
    /\ stream # <<>>
    /\ ParseChunk(partial_data[1] \o Lines(stream)[1]) = Some(FContentX)

\* ---------------------------------------------------------------------
\* C29: on a stream that ends normally, and whose buffered content, if
\* any, is not blank, the TextDelta payloads put together are the content
\* fragments of the parsed frames in order of arrival with the wrapped
\* reasoning block set in at one place (and nothing else), under both
\* policies.
\* ---------------------------------------------------------------------
ReasoningBlock ==
    LET R == Concat(ReasoningFragments(parsed))
    IN  IF IsBlank(R) THEN <<>> ELSE TaggedBlock(include_reason_in_content_tag, R)

C29_NoContentLost ==
    (/\ pc = "done"
     /\ Yielded = events
     /\ content_buffer = <<>> \/ ~IsBlank(content_buffer)) =>
        LET C == Concat(ContentFragments(parsed))
        IN  \E k \in 0..Len(C) :
                Concat(Texts(events))
                  = SubSeq(C, 1, k) \o ReasoningBlock \o SubSeq(C, k + 1, Len(C))

C29_Witness ==
    /\ pc = "done"
    /\ Yielded = events
    /\ include_reason_in_content
    /\ parsed = <<FContentX, FReason, FContentX>>
    /\ Texts(events) = <<<<"x">>, TaggedBlock(<<"think">>, <<"q">>) \o <<"x">>>>

\* ---------------------------------------------------------------------
\* C30: reasoning that is present but empty or blank still counts as
\* observed.  Under the merge policy, on a stream whose reasoning is all
\* blank, the content from the first reasoning frame on is not yielded
\* while reading; after the loop it is yielded as one TextDelta without a
\* tag, or not at all when it is blank.
\* ---------------------------------------------------------------------
FReasonEmpty == OneChoice(None, Some(<<>>), <<>>, None)

Effect(st) ==
    [calls |-> st.calls, events |-> st.events, has_reasoning |-> st.has_reasoning,
     reasoning_buffer |-> st.reasoning_buffer, content_buffer |-> st.content_buffer,
     final_usage |-> st.final_usage, partial_data |-> st.partial_data,
     panicked |-> st.panicked]

FirstChoiceOf(f) == StreamingCompletionChunk(<<f.choices[1]>>, f.usage)

C31_FirstChoiceOnly ==
    (pc = "next" /\ partial_data = None) =>
        /\ LET two == LineStep(Cur, Prefix \o Encode(FTwoChoices))
               one == LineStep(Cur, Prefix \o Encode(FirstChoiceOf(FTwoChoices)))
           IN  /\ two.parsed = Append(parsed, FTwoChoices)
               /\ one.parsed = Append(parsed, FirstChoiceOf(FTwoChoices))
               /\ Effect(two) = Effect(one)
        /\ \A f \in {FNoChoice, FUsage1} :
              LET st == LineStep(Cur, Prefix \o Encode(f))
              IN  /\ st.parsed = Append(parsed, f)
                  /\ Effect(st) = [Effect(Cur) EXCEPT
                                     !.final_usage = IF f.usage = None THEN final_usage
                                                     ELSE f.usage[1]]

C31_Witness ==
    /\ pc = "next"
    /\ include_reason_in_content
    /\ parsed = <<FOrphanMix, FTwoChoices, FUsage1>>
    /\ events = <<>>
    /\ DOMAIN calls = {0}
    /\ reasoning_buffer = <<"q">>
    /\ content_buffer = <<"x", "x">>
    /\ final_usage = Usage(1, 2)

\* ---------------------------------------------------------------------
\* C32: within one frame the tool-call fragments are handled first, then
\* the reasoning, then the content: the ToolCallReady of an atomic
\* fragment precedes the TextDelta of its frame, and under the merge
\* policy content that comes in a frame with reasoning is buffered, not
\* yielded, also when that reasoning is the first of the stream.
\* ---------------------------------------------------------------------
ReadyOfAtomic == ToolCall(<<"3">>, <<"h">>, ParseValue(<<"{", "}">>)[1])

C32_OrderWithinFrame ==
    /\ (pc = "next" /\ partial_data = None) =>
          /\ LET st == LineStep(Cur, Prefix \o Encode(FAtomic))
             IN  /\ st.parsed = Append(parsed, FAtomic)
                 /\ st.events = events \o <<ReadyOfAtomic>>
                                 \o (IF include_reason_in_content /\ has_reasoning
                                     THEN <<>> ELSE <<Message(<<"x">>)>>)
          /\ \A f \in {FBoth, FAtomicBoth} :
                LET st == LineStep(Cur, Prefix \o Encode(f))
                    ready == IF f = FAtomicBoth THEN <<ReadyOfAtomic>> ELSE <<>>
                IN  /\ st.parsed = Append(parsed, f)
                    /\ st.has_reasoning
                    /\ st.reasoning_buffer = reasoning_buffer \o <<"p">>
                    /\ IF include_reason_in_content
                       THEN /\ st.events = events \o ready
                            /\ st.content_buffer = content_buffer \o <<"z">>
                       ELSE /\ st.events = events \o ready \o <<Message(<<"z">>)>>
                            /\ st.content_buffer = content_buffer
    /\ (Reading /\ include_reason_in_content /\ ~NoReasoning(parsed)) =>
          LET first == FirstReasoning(parsed)
          IN  /\ Texts(events) = ContentFragments(SubSeq(parsed, 1, first - 1))
              /\ content_buffer = ContentFrom(parsed, first)

C32_Witness ==
    /\ pc = "next"
    /\ include_reason_in_content
    /\ parsed = <<FAtomic, FBoth>>
    /\ events = <<ReadyOfAtomic, Message(<<"x">>)>>
    /\ content_buffer = <<"z">>

====
